---- MODULE Spec2Model ----
(***************************************************************************)
(* aiograpi/reqwests.py: the streaming Zstandard content decoder           *)
(* (ZstdDecoder) that the module registers with httpx.                     *)
(*                                                                         *)
(* A decoder instance owns one zstandard decompression object.  The model  *)
(* gives that object the behaviour of python-zstandard's                   *)
(* ZstdDecompressionObj (read_across_frames = False) over a small frame    *)
(* format that keeps the structure of a Zstandard frame: a magic number,   *)
(* then blocks, each with a header carrying Last_Block, Block_Type and     *)
(* Block_Size; Raw blocks carry their bytes, RLE blocks carry one byte     *)
(* repeated Block_Size times.  Compressed blocks (Block_Type 2) are not    *)
(* generated by Compress and are rejected like the reserved type 3.        *)
(*                                                                         *)
(* Each response body is a sequence of frames, optionally followed by a    *)
(* byte that starts no frame.  The transport hands the body to decode() in *)
(* chunks of any size (also empty ones) and may call flush() at any point, *)
(* which covers bodies that stop in the middle of a frame.                 *)
(***************************************************************************)
EXTENDS Integers, Sequences, FiniteSets, TLC

\* ---------------------------------------------------------------- bounds

MaxFrames == 3

\* nchunks counts the non-empty chunks up to this number and stays there.
ChunkCap == 2

\* ----------------------------------------------------- bytes and frames

Inst == {"A", "B"}

Magic == 40

Bad == 6

Payloads == {<<>>, <<1, 2>>, <<2, 2, 1>>}

Tails == {<<>>, <<Bad>>}

Hdr(last, type, size) == (IF last THEN 1 ELSE 0) + 2 * type + 8 * size

HdrLast(b) == b % 2 = 1

HdrType(b) == (b \div 2) % 4

HdrSize(b) == b \div 8

RECURSIVE RunLen(_)
RunLen(p) ==
    IF Len(p) = 0 THEN 0
    ELSE IF Len(p) >= 2 /\ p[1] = p[2] THEN 1 + RunLen(Tail(p))
    ELSE 1

RECURSIVE RawLen(_)
RawLen(p) ==
    IF Len(p) <= 1 THEN Len(p)
    ELSE IF p[1] = p[2] THEN 0
    ELSE 1 + RawLen(Tail(p))

RECURSIVE Blocks(_)
Blocks(p) ==
    IF RunLen(p) >= 2
    THEN LET n == RunLen(p)
         IN  <<Hdr(n = Len(p), 1, n), p[1]>>
             \o (IF n = Len(p) THEN <<>> ELSE Blocks(SubSeq(p, n + 1, Len(p))))
    ELSE LET n == RawLen(p)
         IN  <<Hdr(n = Len(p), 0, n)>> \o SubSeq(p, 1, n)
             \o (IF n = Len(p) THEN <<>> ELSE Blocks(SubSeq(p, n + 1, Len(p))))

Compress(p) ==
    <<Magic>> \o (IF p = <<>> THEN <<Hdr(TRUE, 0, 0)>> ELSE Blocks(p))

RECURSIVE Flatten(_)
Flatten(ps) == IF ps = <<>> THEN <<>> ELSE Head(ps) \o Flatten(Tail(ps))

RECURSIVE CompressAll(_)
CompressAll(ps) ==
    IF ps = <<>> THEN <<>> ELSE Compress(Head(ps)) \o CompressAll(Tail(ps))

Stream(b) == CompressAll(b.frames) \o b.tail

Bodies ==
    {[frames |-> fs, tail |-> t] :
        fs \in UNION {[1..k -> Payloads] : k \in 0..MaxFrames}, t \in Tails}

EmptyBody == [frames |-> <<>>, tail |-> <<>>]

IsoBodies ==
    {[frames |-> fs, tail |-> t] :
        fs \in {<<>>, <<(<<1>>)>>, <<(<<>>), (<<>>)>>}, t \in Tails}

Repeat(b, n) == [k \in 1..n |-> b]

\* ------------------------------------------- zstandard decompression object

NewDecompressObj(gen) ==
    [gen |-> gen, stage |-> "magic", need |-> 0, last |-> FALSE,
     eof |-> FALSE, unused_data |-> <<>>, consumed |-> 0]

EndBlock(c, data, i) ==
    IF c.last
    THEN [c EXCEPT !.stage = "done", !.need = 0, !.eof = TRUE,
                   !.unused_data = SubSeq(data, i + 1, Len(data)),
                   !.consumed = @ + 1]
    ELSE [c EXCEPT !.stage = "bhdr", !.need = 0, !.consumed = @ + 1]

RECURSIVE Feed(_, _, _, _)
Feed(c, data, i, out) ==
    IF c.eof \/ i > Len(data)
    THEN [ctx |-> c, out |-> out, err |-> FALSE]
    ELSE LET b == data[i]
         IN  CASE c.stage = "magic" ->
                    IF b = Magic
                    THEN Feed([c EXCEPT !.stage = "bhdr", !.consumed = @ + 1],
                              data, i + 1, out)
                    ELSE [ctx |-> [c EXCEPT !.stage = "error"], out |-> <<>>,
                          err |-> TRUE]
               [] c.stage = "bhdr" ->
                    IF HdrType(b) = 0
                    THEN IF HdrSize(b) = 0
                         THEN Feed(EndBlock([c EXCEPT !.last = HdrLast(b)], data, i),
                                   data, i + 1, out)
                         ELSE Feed([c EXCEPT !.stage = "raw", !.need = HdrSize(b),
                                             !.last = HdrLast(b),
                                             !.consumed = @ + 1],
                                   data, i + 1, out)
                    ELSE IF HdrType(b) = 1
                    THEN Feed([c EXCEPT !.stage = "rle", !.need = HdrSize(b),
                                        !.last = HdrLast(b), !.consumed = @ + 1],
                              data, i + 1, out)
                    ELSE [ctx |-> [c EXCEPT !.stage = "error"], out |-> <<>>,
                          err |-> TRUE]
               [] c.stage = "raw" ->
                    IF c.need = 1
                    THEN Feed(EndBlock(c, data, i), data, i + 1, Append(out, b))
                    ELSE Feed([c EXCEPT !.need = @ - 1, !.consumed = @ + 1],
                              data, i + 1, Append(out, b))
               [] c.stage = "rle" ->
                    Feed(EndBlock(c, data, i), data, i + 1,
                         out \o Repeat(b, c.need))
               [] OTHER ->
                    [ctx |-> c, out |-> <<>>, err |-> TRUE]

Decompress(c, data) ==
    IF c.eof \/ c.stage = "error"
    THEN [ctx |-> c, out |-> <<>>, err |-> TRUE]
    ELSE IF data = <<>>
    THEN [ctx |-> c, out |-> <<>>, err |-> FALSE]
    ELSE Feed(c, data, 1, <<>>)

DecompressFlush(c) == <<>>

\* ------------------------------------------------------------ ZstdDecoder

\* __init__: one decompression object; made counts the objects constructed
\* by this instance, so that each object has its own identity (gen).
ZstdDecoderInit == [decompressor |-> NewDecompressObj(0), made |-> 1]

Raised(d, log) == [dec |-> d, ret |-> <<>>, raised |-> TRUE, feeds |-> log]

IsFresh(c) == c.stage = "magic" /\ c.consumed = 0 /\ ~c.eof /\ c.unused_data = <<>>

\* One entry of a call's feed log: which object was fed which bytes, whether it
\* was new when fed, and what it reported afterwards.
Entry(c, data, r) ==
    [gen |-> c.gen, fresh |-> IsFresh(c), data |-> data, eof |-> r.ctx.eof,
     unused |-> r.ctx.unused_data, err |-> r.err]

\* Variant of the loop that hands the new object the left-over bytes without
\* their first byte.
RECURSIVE DecodeLoop_SkipByte(_, _, _)
DecodeLoop_SkipByte(d, parts, log) ==
    IF d.decompressor.eof /\ d.decompressor.unused_data # <<>>
    THEN LET unused_data == Tail(d.decompressor.unused_data)
             new == NewDecompressObj(d.made)
             r == Decompress(new, unused_data)
             nd == [decompressor |-> r.ctx, made |-> d.made + 1]
             nlog == Append(log, Entry(new, unused_data, r))
         IN  IF r.err THEN Raised(nd, nlog)
             ELSE DecodeLoop_SkipByte(nd, parts \o r.out, nlog)
    ELSE [dec |-> d, ret |-> parts, raised |-> FALSE, feeds |-> log]

\* Variant of the loop that feeds the new object the whole chunk again instead
\* of the left-over bytes, followed for as many restarts as the chunk has
\* bytes, plus one.
RECURSIVE DecodeLoop_RefeedChunk(_, _, _)
DecodeLoop_RefeedChunk(d, parts, log) ==
    IF /\ d.decompressor.eof /\ d.decompressor.unused_data # <<>>
       /\ Len(log) <= Len(log[1].data) + 1
    THEN LET unused_data == log[1].data
             new == NewDecompressObj(d.made)
             r == Decompress(new, unused_data)
             nd == [decompressor |-> r.ctx, made |-> d.made + 1]
             nlog == Append(log, Entry(new, unused_data, r))
         IN  IF r.err THEN Raised(nd, nlog)
             ELSE DecodeLoop_RefeedChunk(nd, parts \o r.out, nlog)
    ELSE [dec |-> d, ret |-> parts, raised |-> FALSE, feeds |-> log]

\* Variant of the loop that puts each new part in front of data_parts.
RECURSIVE DecodeLoop_Prepend(_, _, _)
DecodeLoop_Prepend(d, parts, log) ==
    IF d.decompressor.eof /\ d.decompressor.unused_data # <<>>
    THEN LET unused_data == d.decompressor.unused_data
             new == NewDecompressObj(d.made)
             r == Decompress(new, unused_data)
             nd == [decompressor |-> r.ctx, made |-> d.made + 1]
             nlog == Append(log, Entry(new, unused_data, r))
         IN  IF r.err THEN Raised(nd, nlog)
             ELSE DecodeLoop_Prepend(nd, r.out \o parts, nlog)
    ELSE [dec |-> d, ret |-> parts, raised |-> FALSE, feeds |-> log]

\* The while loop of decode(): while the object is at end of frame with
\* bytes left over, replace it by a new object and feed it those bytes.
RECURSIVE DecodeLoop(_, _, _)
DecodeLoop(d, parts, log) ==
    IF d.decompressor.eof /\ d.decompressor.unused_data # <<>>
    THEN LET unused_data == d.decompressor.unused_data
             new == NewDecompressObj(d.made)
             r == Decompress(new, unused_data)
             nd == [decompressor |-> r.ctx, made |-> d.made + 1]
             nlog == Append(log, Entry(new, unused_data, r))
         IN  IF r.err THEN Raised(nd, nlog)
             ELSE DecodeLoop(nd, parts \o r.out, nlog)
    ELSE [dec |-> d, ret |-> parts, raised |-> FALSE, feeds |-> log]

\* Variant of decode() without the early return for empty input.
decode_NoEmptyGuard(d, data) ==
    LET r == Decompress(d.decompressor, data)
        nd == [d EXCEPT !.decompressor = r.ctx]
        log == <<Entry(d.decompressor, data, r)>>
    IN  IF r.err THEN Raised(nd, log)
        ELSE DecodeLoop(nd, r.out, log)

\* Variant of decode() that starts data_parts empty, losing what the first
\* decompress() call returned.
decode_DropFirstPart(d, data) ==
    IF data = <<>>
    THEN [dec |-> d, ret |-> <<>>, raised |-> FALSE, feeds |-> <<>>]
    ELSE LET r == Decompress(d.decompressor, data)
             nd == [d EXCEPT !.decompressor = r.ctx]
             log == <<Entry(d.decompressor, data, r)>>
         IN  IF r.err THEN Raised(nd, log)
             ELSE DecodeLoop(nd, <<>>, log)

decode(d, data) ==
    IF data = <<>>
    THEN [dec |-> d, ret |-> <<>>, raised |-> FALSE, feeds |-> <<>>]
    ELSE LET r == Decompress(d.decompressor, data)
             nd == [d EXCEPT !.decompressor = r.ctx]
             log == <<Entry(d.decompressor, data, r)>>
         IN  IF r.err THEN Raised(nd, log)
             ELSE DecodeLoop(nd, r.out, log)

\* Variant of flush() without the end-of-frame check.
flush_NoCheck(d) ==
    [ret |-> DecompressFlush(d.decompressor), raised |-> FALSE]

\* Variant of flush() that accepts a decoder that was never given data.
flush_SeenData(d) ==
    LET ret == DecompressFlush(d.decompressor)
    IN  IF IsFresh(d.decompressor)
        THEN [ret |-> <<>>, raised |-> FALSE]
        ELSE IF ~d.decompressor.eof
        THEN [ret |-> <<>>, raised |-> TRUE]
        ELSE [ret |-> ret, raised |-> FALSE]

flush(d) ==
    LET ret == DecompressFlush(d.decompressor)
    IN  IF ~d.decompressor.eof
        THEN [ret |-> <<>>, raised |-> TRUE]
        ELSE [ret |-> ret, raised |-> FALSE]

\* ---------------------------------------------------------- Python values

\* A value is None, a string, an integer or a dict that keeps its insertion
\* order.  Every value has the same three fields, so that any two values can
\* be compared: the tag, the text of a string or integer, and the
\* <<key, value>> pairs of a dict (with distinct keys).
PyNone == [tag |-> "None", s |-> "", d |-> <<>>]

PyStr(x) == [tag |-> "str", s |-> x, d |-> <<>>]

PyInt(n) == [tag |-> "int", s |-> ToString(n), d |-> <<>>]

PyDict(pairs) == [tag |-> "dict", s |-> "", d |-> pairs]

IsDict(v) == v.tag = "dict"

\* Python truth value: None, "", 0 and the empty dict are false.
Truthy(v) ==
    CASE v.tag = "None" -> FALSE
      [] v.tag = "str" -> v.s # ""
      [] v.tag = "int" -> v.s # ToString(0)
      [] OTHER -> v.d # <<>>

\* a or b
Or(a, b) == IF Truthy(a) THEN a ELSE b

\* d.get(k): the value at key k, None when the key is absent.
DictGet(d, k) ==
    IF \E n \in 1..Len(d.d) : d.d[n][1] = k
    THEN d.d[CHOOSE n \in 1..Len(d.d) : d.d[n][1] = k][2]
    ELSE PyNone

\* ----------------------------------------------------------- _proxy_kwargs

\* The proxy chosen from a mapping: the or-chain over the five keys, then
\* the first value when the chain gave None and the mapping is not empty.
PickProxy(proxy_or_map) ==
    LET proxy == Or(DictGet(proxy_or_map, "all://"),
                 Or(DictGet(proxy_or_map, "https"),
                 Or(DictGet(proxy_or_map, "http"),
                 Or(DictGet(proxy_or_map, "https://"),
                    DictGet(proxy_or_map, "http://")))))
    IN  IF proxy = PyNone /\ Truthy(proxy_or_map)
        THEN proxy_or_map.d[1][2]
        ELSE proxy

\* The returned dict has one entry.
ProxyKwargs(has, proxy_or_map) ==
    IF has
    THEN PyDict(<<(<<"proxies", proxy_or_map>>)>>)
    ELSE IF IsDict(proxy_or_map)
    THEN PyDict(<<(<<"proxy", PickProxy(proxy_or_map)>>)>>)
    ELSE PyDict(<<(<<"proxy", proxy_or_map>>)>>)

\* The arguments _proxy_kwargs is studied on.
MaxDict == 2

ProxyKeys == {"all://", "https", "http", "https://", "http://", "socks5://"}

ProxyVals == {PyNone, PyStr(""), PyStr("u1"), PyStr("u2")}

ProxyMaps ==
    {PyDict(ps) : ps \in
        {q \in UNION {[1..n -> ProxyKeys \X ProxyVals] : n \in 0..MaxDict} :
            \A a, b \in 1..Len(q) : a # b => q[a][1] # q[b][1]}}

ProxyArgs == {PyNone, PyStr("u1")} \cup ProxyMaps

\* ---------------------------------------------------------------- Session

\* Header and keyword dicts are functions from the keys present to values.
EmptyDict == [k \in {} |-> PyNone]

\* a | b
DictUnion(a, b) ==
    [k \in DOMAIN a \cup DOMAIN b |-> IF k \in DOMAIN b THEN b[k] ELSE a[k]]

\* {k: v for k, v in d.items() if keep(v)}
DropNone(d) == [k \in {x \in DOMAIN d : d[x] # PyNone} |-> d[k]]

DropFalsy(d) == [k \in {x \in DOMAIN d : Truthy(d[x])} |-> d[k]]

\* The headers argument of a request: not given (None), or a dict.
NoHeaders == [given |-> FALSE, dict |-> EmptyDict]

HeadersArg(h) == [given |-> TRUE, dict |-> h]

\* headers or {}
OrEmpty(headers) ==
    IF ~headers.given \/ DOMAIN headers.dict = {} THEN EmptyDict
    ELSE headers.dict

DEFAULT_TIMEOUT == 45

\* Lines 139-140 and 88-89: the default timeout.
WithTimeout(kwargs) ==
    IF "timeout" \notin DOMAIN kwargs
    THEN DictUnion(kwargs, [k \in {"timeout"} |-> PyInt(DEFAULT_TIMEOUT)])
    ELSE kwargs

\* Variant of the header merge in which the session's value wins.
MergeHeaders_SessionWins(session_headers, headers) ==
    DropNone(DictUnion(OrEmpty(headers), session_headers))

\* Lines 143-144: self.headers | (headers or {}), without the None entries.
MergeHeaders(session_headers, headers) ==
    DropNone(DictUnion(session_headers, OrEmpty(headers)))

\* Session.__init__
SessionInit == [headers |-> EmptyDict, verify |-> FALSE, _client |-> 0,
                _proxies |-> PyNone]

\* An httpx.AsyncClient: its _state, how often it was entered and exited,
\* how many requests it sent, and the arguments it was constructed with.
NoClient == [state |-> "absent", opens |-> 0, closes |-> 0, sends |-> 0,
             kwargs |-> [verify |-> FALSE, follow_redirects |-> FALSE,
                         proxy_kwargs |-> PyNone]]

\* httpx.AsyncClient(verify=verify, follow_redirects=True, **proxy)
NewClient(verify, proxy) ==
    [state |-> "UNOPENED", opens |-> 0, closes |-> 0, sends |-> 0,
     kwargs |-> [verify |-> verify, follow_redirects |-> TRUE,
                 proxy_kwargs |-> proxy]]

\* AsyncClient.__aenter__ on an unopened client.
ClientEnter(cl) == [cl EXCEPT !.state = "OPENED", !.opens = @ + 1]

\* AsyncClient.__aexit__
ClientExit(cl) == [cl EXCEPT !.state = "CLOSED", !.closes = @ + 1]

\* AsyncClient.request(..., **kwargs): the client afterwards and the
\* outcome.  Its signature has no proxy or proxies parameter, and a closed
\* client refuses to send.
ClientRequest(cl, kwargs) ==
    IF "proxy" \in DOMAIN kwargs \/ "proxies" \in DOMAIN kwargs
    THEN [client |-> cl, result |-> "TypeError"]
    ELSE IF cl.state = "CLOSED"
    THEN [client |-> cl, result |-> "RuntimeError"]
    ELSE [client |-> [cl EXCEPT !.state = "OPENED", !.sends = @ + 1],
          result |-> "sent"]

\* The one entry of the dict _proxy_kwargs returns, as keyword arguments.
AsKwargs(pk) == [k \in {pk.d[1][1]} |-> pk.d[1][2]]

\* Variant of lines 143-147 that merges the request's headers into the
\* session's own dict.
PrepareRequest_InPlace(self, has, headers, proxies, kwargs) ==
    [self |-> [self EXCEPT !.headers = MergeHeaders(self.headers, headers)],
     headers |-> MergeHeaders(self.headers, headers),
     kwargs |-> IF proxies # PyNone
                THEN DictUnion(DropFalsy(WithTimeout(kwargs)),
                               AsKwargs(ProxyKwargs(has, proxies)))
                ELSE DropFalsy(WithTimeout(kwargs))]

\* Lines 139-147 of Session.request: the session object and the local
\* headers and kwargs as they are when the client's request() is called.
PrepareRequest(self, has, headers, proxies, kwargs) ==
    [self |-> self,
     headers |-> MergeHeaders(self.headers, headers),
     kwargs |-> IF proxies # PyNone
                THEN DictUnion(DropFalsy(WithTimeout(kwargs)),
                               AsKwargs(ProxyKwargs(has, proxies)))
                ELSE DropFalsy(WithTimeout(kwargs))]

\* ------------------------------------------------------------------ state

VARIABLES
    body,     \* per instance: the response body the transport delivers
    pos,      \* per instance: how many bytes of the body were delivered
    dec,      \* per instance: the ZstdDecoder object
    out,      \* per instance: all bytes returned so far, in order
    status,   \* per instance: "open", "ZstdError", "flushed", "DecodingError"
    call,     \* per instance: the last call, its argument and its result
    nchunks,  \* per instance: the number of non-empty chunks delivered,
              \* counted up to ChunkCap
    who       \* the instance the last call was made on

VARIABLES
    table,    \* httpx's SUPPORTED_DECODERS: token -> decoder factory
    table0,   \* that table as it was before this module was imported
    imported, \* whether this module has been imported
    hasp,     \* _HAS_PROXIES_PARAM: httpx.AsyncClient accepts "proxies"
    pxin,     \* the argument of the last _proxy_kwargs call under study
    pxout,    \* what that call returned
    sess,     \* the Session object: headers, verify, _client, _proxies
    clients,  \* the httpx.AsyncClient objects the session constructed
    scope,    \* "in" while the session's scope lasts, then "exited"
    sreq      \* the last operation on the session, its arguments and result

others == <<table, table0, imported, hasp, pxin, pxout, sess, clients, scope, sreq>>

vars == <<body, pos, dec, out, status, call, nchunks, who, others>>

NoCall == [op |-> "none", data |-> <<>>, ret |-> <<>>, raised |-> FALSE,
           feeds |-> <<>>, before |-> ZstdDecoderInit]

InitWith(bs) ==
    /\ body \in bs
    /\ pos = [i \in Inst |-> 0]
    /\ dec = [i \in Inst |-> ZstdDecoderInit]
    /\ out = [i \in Inst |-> <<>>]
    /\ status = [i \in Inst |-> "open"]
    /\ call = [i \in Inst |-> NoCall]
    /\ nchunks = [i \in Inst |-> 0]
    /\ who = "none"

\* httpx's table of decoders as this module finds it; newer httpx versions
\* have an entry for "zstd" of their own.
BuiltinTables ==
    {[t \in {"identity", "gzip", "deflate", "br"} |-> "httpx"],
     [t \in {"identity", "gzip", "deflate", "br", "zstd"} |-> "httpx"]}

\* Variant that installs a table holding only this decoder.
Register_OnlyZstd(t) == [k \in {"zstd"} |-> "ZstdDecoder"]

\* Line 60: SUPPORTED_DECODERS["zstd"] = ZstdDecoder
Register(t) ==
    [k \in DOMAIN t \cup {"zstd"} |-> IF k = "zstd" THEN "ZstdDecoder" ELSE t[k]]

\* What reached the client's request(): nothing yet, or the headers and
\* the keyword arguments.
NotSent == [reached |-> FALSE, headers |-> EmptyDict, kwargs |-> EmptyDict]

\* before and client are the session and its installed client as they were
\* when the operation began; temp is the client a module-level request made.
NoReq == [op |-> "none", result |-> "none", headers |-> NoHeaders,
          proxies |-> PyNone, kwargs |-> EmptyDict, sent |-> NotSent,
          before |-> SessionInit, client |-> NoClient, temp |-> NoClient]

MaxClients == 2

OldHttpxTable == [t \in {"identity", "gzip", "deflate", "br"} |-> "httpx"]

RegistryImported ==
    /\ table0 = OldHttpxTable
    /\ table = Register(table0)
    /\ imported = TRUE

ProxyIdle == pxin = PyNone /\ pxout = PyNone

SessionNew ==
    /\ sess = SessionInit
    /\ clients = [c \in 1..MaxClients |-> NoClient]
    /\ scope = "in"
    /\ sreq = NoReq

Init ==
    /\ InitWith({[i \in Inst |-> IF i = "A" THEN b ELSE EmptyBody] : b \in Bodies})
    /\ RegistryImported /\ hasp = FALSE /\ ProxyIdle /\ SessionNew

InitIso ==
    /\ InitWith([Inst -> IsoBodies])
    /\ RegistryImported /\ hasp = FALSE /\ ProxyIdle /\ SessionNew

\* Variant in which the decompression object is one attribute shared by all
\* instances.
AfterDecode_Shared(decs, i, r) == [j \in Inst |-> r.dec]

\* The state of the instances after decode(data) on instance i.
AfterDecode(decs, i, r) == [decs EXCEPT ![i] = r.dec]

Decode(i) ==
    /\ status[i] = "open"
    /\ \E n \in 0..(Len(Stream(body[i])) - pos[i]) :
          LET data == SubSeq(Stream(body[i]), pos[i] + 1, pos[i] + n)
              r == decode(dec[i], data)
          IN  /\ dec' = AfterDecode(dec, i, r)
              /\ pos' = [pos EXCEPT ![i] = @ + n]
              /\ nchunks' = [nchunks EXCEPT ![i] = IF n = 0 \/ @ >= ChunkCap THEN @ ELSE @ + 1]
              /\ out' = [out EXCEPT ![i] = @ \o r.ret]
              /\ status' = [status EXCEPT ![i] =
                               IF r.raised THEN "ZstdError" ELSE "open"]
              /\ call' = [call EXCEPT ![i] =
                             [op |-> "decode", data |-> data, ret |-> r.ret,
                              raised |-> r.raised, feeds |-> r.feeds,
                              before |-> dec[i]]]
    /\ who' = i
    /\ UNCHANGED <<body, others>>

Flush(i) ==
    /\ status[i] = "open"
    /\ LET r == flush(dec[i])
       IN  /\ out' = [out EXCEPT ![i] = @ \o r.ret]
           /\ status' = [status EXCEPT ![i] =
                            IF r.raised THEN "DecodingError" ELSE "flushed"]
           /\ call' = [call EXCEPT ![i] =
                          [op |-> "flush", data |-> <<>>, ret |-> r.ret,
                           raised |-> r.raised, feeds |-> <<>>,
                           before |-> dec[i]]]
    /\ who' = i
    /\ UNCHANGED <<body, pos, dec, nchunks, others>>

Next == Decode("A") \/ Flush("A")

Spec == Init /\ [][Next]_vars

NextIso == \E i \in Inst : Decode(i) \/ Flush(i)

SpecIso == InitIso /\ [][NextIso]_vars

\* ----------------------------------------------- _proxy_kwargs on its own

decoders == <<body, pos, dec, out, status, call, nchunks, who>>

DecodersIdle == InitWith({[i \in Inst |-> EmptyBody]})

InitProxy ==
    /\ DecodersIdle /\ RegistryImported /\ SessionNew
    /\ hasp \in BOOLEAN
    /\ pxin \in ProxyArgs
    /\ pxout = PyNone

CallProxyKwargs ==
    /\ pxout = PyNone
    /\ pxout' = ProxyKwargs(hasp, pxin)
    /\ UNCHANGED <<decoders, table, table0, imported, hasp, pxin, sess,
                   clients, scope, sreq>>

SpecProxy == InitProxy /\ [][CallProxyKwargs]_vars

\* ------------------------------------------- import and the decoder table

\* SUPPORTED_DECODERS["zstd"](): the factory is the class, and calling it
\* runs __init__.
NewDecoder == ZstdDecoderInit

\* Before the import: httpx's table as it comes, and no decoder object yet.
InitReg ==
    /\ body = [i \in Inst |-> EmptyBody]
    /\ pos = [i \in Inst |-> 0]
    /\ dec = [i \in Inst |-> ZstdDecoderInit]
    /\ out = [i \in Inst |-> <<>>]
    /\ status = [i \in Inst |-> "none"]
    /\ call = [i \in Inst |-> NoCall]
    /\ nchunks = [i \in Inst |-> 0]
    /\ who = "none"
    /\ table0 \in BuiltinTables
    /\ table = table0
    /\ imported = FALSE
    /\ hasp = FALSE /\ ProxyIdle /\ SessionNew

\* import aiograpi.reqwests: line 60 runs once.
Import ==
    /\ ~imported
    /\ table' = Register(table)
    /\ imported' = TRUE
    /\ UNCHANGED <<decoders, table0, hasp, pxin, pxout, sess, clients,
                   scope, sreq>>

\* The transport receives a response with Content-Encoding: zstd and calls
\* the factory of the table for it; the object takes the place of the one
\* slot i held for an earlier response.
Create(i) ==
    /\ "zstd" \in DOMAIN table /\ table["zstd"] = "ZstdDecoder"
    /\ body' \in {[body EXCEPT ![i] = b] : b \in IsoBodies}
    /\ dec' = [dec EXCEPT ![i] = NewDecoder]
    /\ pos' = [pos EXCEPT ![i] = 0]
    /\ out' = [out EXCEPT ![i] = <<>>]
    /\ status' = [status EXCEPT ![i] = "open"]
    /\ call' = [call EXCEPT ![i] = [NoCall EXCEPT !.op = "new"]]
    /\ nchunks' = [nchunks EXCEPT ![i] = 0]
    /\ who' = i
    /\ UNCHANGED others

NextReg == Import \/ \E i \in Inst : Create(i) \/ Decode(i) \/ Flush(i)

SpecReg == InitReg /\ [][NextReg]_vars

\* ------------------------------------------------- Session and request()

MaxSends == 2

HeaderKeys == {"Accept", "User-Agent"}

\* The values the caller gives session.headers: "x" for some of the keys,
\* or a None.
SessionHeaders ==
    {[k \in K |-> PyStr("x")] : K \in SUBSET HeaderKeys}
        \cup {[k \in {"Accept"} |-> PyNone]}

\* The headers argument of a request: not given, or None or "y" for some
\* of the keys.
HeaderArgs ==
    {NoHeaders} \cup
    {HeadersArg(h) :
        h \in UNION {[K -> {PyNone, PyStr("y")}] : K \in SUBSET HeaderKeys}}

\* Keyword arguments of a request: a timeout (None, 0 or 10) or none, or
\* query parameters.
KwargSets ==
    {EmptyDict, [k \in {"params"} |-> PyStr("q")]} \cup
    {[k \in {"timeout"} |-> v] : v \in {PyNone, PyInt(0), PyInt(10)}}

SessionProxies == {PyNone, PyStr("u1")}

\* The client the session holds, NoClient while self._client is None.
Installed(s, cs) == IF s._client = 0 THEN NoClient ELSE cs[s._client]

Constructed == Cardinality({c \in 1..MaxClients : clients[c] # NoClient})

Did(op) == [NoReq EXCEPT !.op = op, !.before = sess,
                         !.client = Installed(sess, clients)]

InitSession ==
    /\ DecodersIdle /\ RegistryImported /\ ProxyIdle /\ SessionNew
    /\ hasp \in BOOLEAN

\* session.headers = h
SetHeaders(h) ==
    /\ scope = "in"
    /\ sess' = [sess EXCEPT !.headers = h]
    /\ sreq' = Did("headers")
    /\ UNCHANGED <<decoders, table, table0, imported, hasp, pxin, pxout,
                   clients, scope>>

\* session.proxies = p: lines 118-126.  The client held before is dropped
\* as it is.
SetProxies(p) ==
    /\ scope = "in"
    /\ Constructed < MaxClients
    /\ sess' = [sess EXCEPT !._proxies = p, !._client = Constructed + 1]
    /\ clients' = [clients EXCEPT ![Constructed + 1] =
                       NewClient(sess.verify, ProxyKwargs(hasp, p))]
    /\ sreq' = Did("proxies")
    /\ UNCHANGED <<decoders, table, table0, imported, hasp, pxin, pxout,
                   scope>>

\* Session._close, lines 134-136.
CloseClients(s, cs) ==
    IF s._client # 0 /\ cs[s._client].state = "OPENED"
    THEN [cs EXCEPT ![s._client] = ClientExit(@)]
    ELSE cs

\* await session._close() inside the scope
Close ==
    /\ scope = "in"
    /\ clients' = CloseClients(sess, clients)
    /\ sreq' = Did("close")
    /\ UNCHANGED <<decoders, table, table0, imported, hasp, pxin, pxout,
                   sess, scope>>

\* Session.__aexit__, lines 131-132: the scope ends, normally or with an
\* error; the arguments are ignored.
Exit(error) ==
    /\ scope = "in"
    /\ clients' = CloseClients(sess, clients)
    /\ scope' = IF error THEN "failed" ELSE "exited"
    /\ sreq' = Did("exit")
    /\ UNCHANGED <<decoders, table, table0, imported, hasp, pxin, pxout,
                   sess>>

\* await session.request(..., headers=headers, proxies=proxies, **kwargs),
\* lines 138-148.
Request(headers, proxies, kwargs) ==
    /\ scope = "in"
    /\ Installed(sess, clients).sends < MaxSends
    /\ LET args == [Did("request") EXCEPT !.headers = headers,
                        !.proxies = proxies, !.kwargs = kwargs]
           c == sess._client
       IN  IF c = 0
           THEN /\ sreq' = [args EXCEPT !.result = "AttributeError"]
                /\ UNCHANGED <<sess, clients>>
           ELSE LET entered == IF clients[c].state = "UNOPENED"
                               THEN ClientEnter(clients[c]) ELSE clients[c]
                    local == PrepareRequest(sess, hasp, headers, proxies,
                                            kwargs)
                    res == ClientRequest(entered, local.kwargs)
                IN  /\ sess' = local.self
                    /\ clients' = [clients EXCEPT ![c] = res.client]
                    /\ sreq' = [args EXCEPT
                          !.result = res.result,
                          !.sent = IF res.result = "sent"
                                   THEN [reached |-> TRUE,
                                         headers |-> local.headers,
                                         kwargs |-> local.kwargs]
                                   ELSE NotSent]
    /\ UNCHANGED <<decoders, table, table0, imported, hasp, pxin, pxout,
                   scope>>

\* await request(method, url, proxy=proxy, **kwargs), lines 87-93: a client
\* of its own, entered and exited around the one request.
ModuleRequest(proxy, kwargs) ==
    /\ scope = "in"
    /\ LET made == NewClient(FALSE, ProxyKwargs(hasp, proxy))
           res == ClientRequest(ClientEnter(made), WithTimeout(kwargs))
       IN  sreq' = [Did("module_request") EXCEPT
                       !.proxies = proxy, !.kwargs = kwargs,
                       !.result = res.result,
                       !.sent = [reached |-> TRUE, headers |-> EmptyDict,
                                 kwargs |-> WithTimeout(kwargs)],
                       !.temp = ClientExit(res.client)]
    /\ UNCHANGED <<decoders, table, table0, imported, hasp, pxin, pxout,
                   sess, clients, scope>>

\* Sessions over their whole life: proxies assigned again and again,
\* requests, _close() and the end of the scope, with few request arguments.
NextSession ==
    \/ SetHeaders([k \in {"Accept"} |-> PyStr("x")])
    \/ SetProxies(PyStr("u1"))
    \/ Close
    \/ \E e \in BOOLEAN : Exit(e)
    \/ \E h \in {NoHeaders, HeadersArg([k \in {"Accept"} |-> PyStr("y")])},
          p \in SessionProxies :
          Request(h, p, EmptyDict)
    \/ ModuleRequest(PyNone, EmptyDict)

SpecSession == InitSession /\ [][NextSession]_vars

\* Requests with all their arguments, on a session that assigns its
\* proxies once.
NextSend ==
    \/ \E h \in SessionHeaders : SetHeaders(h)
    \/ \E p \in SessionProxies : Constructed = 0 /\ SetProxies(p)
    \/ \E h \in HeaderArgs, p \in SessionProxies, k \in KwargSets :
          Request(h, p, k)
    \/ \E p \in SessionProxies, k \in KwargSets : ModuleRequest(p, k)

SpecSend == InitSession /\ [][NextSend]_vars

\* ----------------------------------------------------------------- claims

Full(i) == pos[i] = Len(Stream(body[i]))

Valid(i) == body[i].tail = <<>>

Payload(i) == Flatten(body[i].frames)

Ended(i) == status[i] # "open"

IsSuffix(s, t) ==
    /\ Len(s) <= Len(t)
    /\ SubSeq(t, Len(t) - Len(s) + 1, Len(t)) = s

\* What one instance's run amounts to: how it ended and, when flush()
\* succeeded, everything it returned.
Outcome(st, o) == [status |-> st, out |-> IF st = "flushed" THEN o ELSE <<>>]

\* The outcome of handing a fresh decoder the whole stream s in one decode()
\* call and then calling flush().
OneChunk(s) ==
    LET r == decode(ZstdDecoderInit, s)
        f == flush(r.dec)
    IN  IF r.raised THEN Outcome("ZstdError", <<>>)
        ELSE IF f.raised THEN Outcome("DecodingError", <<>>)
        ELSE Outcome("flushed", r.ret \o f.ret)

\* C1: two frames f1, f2 for payloads p1, p2, delivered in any partition into
\* decode() calls and followed by flush(), yield exactly p1 + p2: no decode()
\* call fails, flush() succeeds, and the outputs concatenate to p1 + p2.
C1_MultiFrameConcat ==
    \A i \in Inst :
        (Len(body[i].frames) = 2 /\ Valid(i) /\ Full(i))
            => /\ status[i] # "ZstdError"
               /\ Ended(i) => (status[i] = "flushed" /\ out[i] = Payload(i))

\* C2: decode() never raises, whatever the input and whatever calls came
\* before it on the instance.
C2_DecodeNeverRaises ==
    \A i \in Inst : call[i].op = "decode" => ~call[i].raised

\* C3: for a stream of one or more frames, the outcome (all output, or the
\* error) is the same for every partition of the stream into chunks: it is
\* the outcome of delivering the stream in one chunk.
C3_ChunkingIndependent ==
    \A i \in Inst :
        (Len(body[i].frames) >= 1 /\ Valid(i) /\ Full(i) /\ Ended(i))
            => Outcome(status[i], out[i]) = OneChunk(Stream(body[i]))

\* C4: decode(b"") returns empty bytes, raises nothing, feeds no
\* decompression object and leaves the decoder exactly as it was, in every
\* decoder state.
C4_EmptyDecodeNoOp ==
    \A i \in Inst :
        (call[i].op = "decode" /\ call[i].data = <<>>)
            => /\ call[i].ret = <<>>
               /\ ~call[i].raised
               /\ call[i].feeds = <<>>
               /\ dec[i] = call[i].before
               /\ status[i] = "open"

C4_Witness ==
    \E i \in Inst :
        /\ call[i].op = "decode" /\ call[i].data = <<>>
        /\ dec[i].decompressor.eof
        /\ out[i] # <<>>

\* C5: for a single frame f of a payload p, decode(f) on a fresh decoder
\* followed by flush() succeeds and returns exactly p in total.
C5_RoundTrip ==
    \A i \in Inst :
        (Len(body[i].frames) = 1 /\ Valid(i) /\ Full(i) /\ nchunks[i] = 1
            /\ Ended(i))
            => (status[i] = "flushed" /\ out[i] = body[i].frames[1])

C5_Witness ==
    \E i \in Inst :
        /\ body[i] = [frames |-> <<(<<2, 2, 1>>)>>, tail |-> <<>>]
        /\ Full(i) /\ nchunks[i] = 1
        /\ status[i] = "flushed" /\ out[i] = <<2, 2, 1>>

\* flush() raises DecodingError exactly when the decompression object the
\* decoder holds has not reached the end of its frame.
FlushFailsIffNotEof ==
    \A i \in Inst :
        call[i].op = "flush" =>
            /\ call[i].raised <=> ~call[i].before.decompressor.eof
            /\ status[i] = (IF call[i].raised THEN "DecodingError" ELSE "flushed")

\* C6: flush() fails with DecodingError exactly when the active decompression
\* object has not reached end of frame and succeeds otherwise, and that
\* failure is the only error the decoder produces.
C6_FlushIsOnlyError ==
    /\ FlushFailsIffNotEof
    /\ \A i \in Inst : status[i] \in {"open", "flushed", "DecodingError"}

\* C7: after a proper prefix of a single-frame stream was delivered, in any
\* chunking, flush() fails with DecodingError (and no decode() call failed).
C7_TruncatedFrameFails ==
    \A i \in Inst :
        (Len(body[i].frames) = 1 /\ Valid(i) /\ ~Full(i) /\ Ended(i))
            => /\ status[i] = "DecodingError"
               /\ call[i].op = "flush" /\ call[i].raised

C7_Witness ==
    \E i \in Inst :
        /\ Len(body[i].frames) = 1 /\ Valid(i) /\ ~Full(i)
        /\ nchunks[i] >= 2 /\ out[i] # <<>>
        /\ status[i] = "DecodingError"

\* C8: flush() on a decoder that was given no bytes (no decode() call, or
\* only calls with empty input) fails with DecodingError.
C8_EmptyStreamFails ==
    \A i \in Inst :
        (pos[i] = 0 /\ Ended(i))
            => /\ status[i] = "DecodingError"
               /\ call[i].op = "flush" /\ call[i].raised

C8_Witness ==
    \E i \in Inst :
        /\ pos[i] = 0 /\ call[i].op = "flush"
        /\ status[i] = "DecodingError"
        /\ IsFresh(dec[i].decompressor)

\* C9: within one decode() call, every decompression object after the first
\* is new, is constructed only when its predecessor reported end of frame
\* with bytes left over, and is fed exactly those bytes (a suffix of the
\* chunk); no object is fed twice, no left-over bytes stay unfed, and the
\* decoder ends the call holding the newest object and no other.
C9_CarryOver ==
    \A i \in Inst :
        (call[i].op = "decode" /\ call[i].data # <<>>) =>
            LET log == call[i].feeds
                n == Len(log)
            IN  /\ n >= 1
                /\ log[1].data = call[i].data
                /\ log[1].gen = call[i].before.decompressor.gen
                /\ \A k \in 2..n :
                      /\ log[k - 1].eof /\ ~log[k - 1].err
                      /\ log[k - 1].unused # <<>>
                      /\ log[k].data = log[k - 1].unused
                      /\ IsSuffix(log[k].data, call[i].data)
                      /\ log[k].fresh
                      /\ \A j \in 1..(k - 1) : log[j].gen # log[k].gen
                /\ log[n].err \/ ~(log[n].eof /\ log[n].unused # <<>>)
                /\ dec[i].decompressor.gen = log[n].gen
                /\ dec[i].made = call[i].before.made + n - 1

C9_Witness ==
    \E i \in Inst :
        /\ call[i].op = "decode" /\ ~call[i].raised
        /\ Len(call[i].feeds) >= 3
        /\ call[i].before.decompressor.consumed > 0
        /\ ~dec[i].decompressor.eof

\* C10: a call on one instance leaves every other instance as it was, and
\* its result and the instance's next state are those the call gives from
\* that instance's own state alone; this holds as well for a call that
\* fails.
C10_Isolation ==
    [][\A i \in Inst :
          IF i # who'
          THEN /\ dec'[i] = dec[i] /\ out'[i] = out[i]
               /\ status'[i] = status[i] /\ pos'[i] = pos[i]
               /\ call'[i] = call[i]
          ELSE /\ call'[i].before = dec[i]
               /\ call'[i].op = "decode" =>
                     LET r == decode(dec[i], call'[i].data)
                     IN  /\ dec'[i] = r.dec
                         /\ call'[i].ret = r.ret
                         /\ call'[i].raised = r.raised
               /\ call'[i].op = "flush" =>
                     LET r == flush(dec[i])
                     IN  /\ dec'[i] = dec[i]
                         /\ call'[i].ret = r.ret
                         /\ call'[i].raised = r.raised]_vars

C10_Witness ==
    /\ status["A"] = "DecodingError" /\ nchunks["A"] >= 1
    /\ who = "B" /\ call["B"].op = "decode" /\ call["B"].ret = <<1>>
    /\ nchunks["B"] >= 2

\* --------------------------------------------- claims on chunks of frames

\* The offset in the body at which its j-th frame ends (0 for j = 0).
FrameEnd(b, j) == Len(CompressAll(SubSeq(b.frames, 1, j)))

\* The number of frames of the body that end within its first q bytes.
FramesDone(b, q) ==
    Cardinality({j \in 1..Len(b.frames) : FrameEnd(b, j) <= q})

\* The payload bytes that the first q bytes of the body stand for: the
\* payloads of the frames that end there, then what the started frame gives.
IdealOut(b, q) ==
    LET j == FramesDone(b, q)
        rest == SubSeq(CompressAll(b.frames), FrameEnd(b, j) + 1, q)
    IN  Flatten(SubSeq(b.frames, 1, j))
        \o Feed(NewDecompressObj(0), rest, 1, <<>>).out

\* Where the chunk of the last decode() call started in the body.
ChunkStart(i) == pos[i] - Len(call[i].data)

\* The frames that lie wholly inside the chunk of the last decode() call.
FramesIn(i) ==
    {j \in 1..Len(body[i].frames) :
        /\ FrameEnd(body[i], j - 1) >= ChunkStart(i)
        /\ FrameEnd(body[i], j) <= pos[i]}

IsPrefix(s, t) == Len(s) <= Len(t) /\ SubSeq(t, 1, Len(s)) = s

\* C16: a decode() call whose chunk holds two or more complete frames
\* (and possibly the start of another) returns the payloads of all frames
\* it completed, in stream order, followed by what the newest decompression
\* object produced.
C16_SeveralFramesOneCall ==
    \A i \in Inst :
        (/\ call[i].op = "decode"
         /\ Cardinality(FramesIn(i)) >= 2
         /\ pos[i] <= Len(CompressAll(body[i].frames)))
            => /\ ~call[i].raised
               /\ IdealOut(body[i], pos[i])
                    = IdealOut(body[i], ChunkStart(i)) \o call[i].ret

\* C17: within one decode() call every restart hands the new decompression
\* object strictly fewer bytes than the object before it received, and the
\* number of restarts is at most the length of the chunk.
C17_RestartsBounded ==
    \A i \in Inst :
        (call[i].op = "decode" /\ call[i].data # <<>>) =>
            LET log == call[i].feeds
            IN  /\ \A k \in 2..Len(log) :
                      Len(log[k].data) < Len(log[k - 1].data)
                /\ Len(log) - 1 <= Len(call[i].data)

C17_Witness ==
    \E i \in Inst :
        /\ call[i].op = "decode" /\ ~call[i].raised
        /\ call[i].data = Compress(<<>>) \o Compress(<<>>) \o Compress(<<>>)
        /\ Len(call[i].feeds) = 3

\* C19: for a well-formed stream, in any chunking, what the decode() calls
\* have returned so far is at every point a prefix of the payload of the
\* whole stream.
C19_PrefixSafety ==
    \A i \in Inst : Valid(i) => IsPrefix(out[i], Payload(i))

C19_Witness ==
    \E i \in Inst :
        /\ Valid(i) /\ status[i] = "open" /\ call[i].op = "decode"
        /\ Len(call[i].feeds) >= 2 /\ call[i].ret # <<>>
        /\ nchunks[i] >= 2
        /\ out[i] # call[i].ret /\ out[i] # Payload(i)

\* ------------------------------------------------- claims on _proxy_kwargs

\* The keys _proxy_kwargs looks up, in the order it looks them up.
LookupOrder == <<"all://", "https", "http", "https://", "http://">>

\* The proxy the mapping m stands for as C18 states it: the first truthy
\* value among the keys of LookupOrder, else the mapping's first value, else
\* None for an empty mapping.
ClaimedProxy(m) ==
    LET hits == {n \in 1..Len(LookupOrder) : Truthy(DictGet(m, LookupOrder[n]))}
    IN  IF hits # {}
        THEN DictGet(m, LookupOrder[CHOOSE n \in hits : \A o \in hits : n <= o])
        ELSE IF m.d # <<>> THEN m.d[1][2]
        ELSE PyNone

\* C18: _proxy_kwargs returns a mapping with exactly one key: {'proxies':
\* input} when the client accepts 'proxies'; otherwise {'proxy': p}, with p
\* the input itself for a non-mapping and, for a mapping, the first truthy
\* value among 'all://', 'https', 'http', 'https://', 'http://' in that
\* order, else the mapping's first value, else None.
C18_ProxyKwargs ==
    pxout # PyNone =>
        /\ IsDict(pxout) /\ Len(pxout.d) = 1
        /\ pxout.d[1] =
              IF hasp THEN <<"proxies", pxin>>
              ELSE IF IsDict(pxin) THEN <<"proxy", ClaimedProxy(pxin)>>
              ELSE <<"proxy", pxin>>

\* ------------------------------------------------------ claims on Session

\* The clients the session entered.
Opened == {c \in 1..MaxClients : clients[c].opens >= 1}

\* C11: for any sequence of proxies assignments and request() calls inside a
\* session scope, every client the session opened has been closed exactly
\* once when the scope has ended, normally or with an error, and none is
\* left open; _close() on an absent, never-opened or already-closed client
\* changes nothing.
C11_ClosedExactlyOnce ==
    /\ scope # "in" =>
           \A c \in Opened :
               clients[c].state = "CLOSED" /\ clients[c].closes = 1
    /\ \A c \in 1..MaxClients : clients[c].closes <= 1
    /\ (sreq.op \in {"close", "exit"} /\ sreq.client.state # "OPENED") =>
           Installed(sess, clients) = sreq.client

\* C12: constructing a Session or assigning proxies never opens the client;
\* a request() on a client that is not open opens it before sending, and a
\* request() on an open client sends without opening it again.
C12_OpenedLazily ==
    /\ sreq.op = "none" => Opened = {}
    /\ sreq.op = "proxies" =>
           /\ Installed(sess, clients).state = "UNOPENED"
           /\ Installed(sess, clients).opens = 0
    /\ (sreq.op = "request" /\ sreq.client.state # "CLOSED") =>
           /\ Installed(sess, clients).state = "OPENED"
           /\ Installed(sess, clients).opens = 1
           /\ sreq.proxies = PyNone =>
                  /\ sreq.result = "sent"
                  /\ Installed(sess, clients).sends = sreq.client.sends + 1

\* C13: Session.request and the module-level request send with timeout 45
\* when the caller passes no timeout, and with the caller's own timeout value
\* when the caller passes one.
C13_DefaultTimeout ==
    (sreq.op \in {"request", "module_request"} /\ sreq.sent.reached) =>
        /\ "timeout" \in DOMAIN sreq.sent.kwargs
        /\ sreq.sent.kwargs["timeout"] =
               IF "timeout" \in DOMAIN sreq.kwargs
               THEN sreq.kwargs["timeout"] ELSE PyInt(45)

\* The session headers sh overlaid with the request's headers rh, without
\* the entries that end up None.
Overlaid(sh, rh, k) == IF k \in DOMAIN rh THEN rh[k] ELSE sh[k]

ExpectedHeaders(sh, rh) ==
    [k \in {x \in DOMAIN sh \cup DOMAIN rh : Overlaid(sh, rh, x) # PyNone}
        |-> Overlaid(sh, rh, k)]

\* C14: the headers Session.request sends are the session headers overlaid
\* with the per-request headers, the per-request value winning on a shared
\* key, with every entry whose value is None removed, including a session
\* header that the per-request headers set to None.
C14_HeaderMerge ==
    (sreq.op = "request" /\ sreq.sent.reached) =>
        sreq.sent.headers =
            ExpectedHeaders(sreq.before.headers, sreq.headers.dict)

\* A sent request whose headers set one session header to None and override
\* another.
C14_Witness ==
    /\ sreq.op = "request" /\ sreq.sent.reached
    /\ \E k \in DOMAIN sreq.before.headers \cap DOMAIN sreq.headers.dict :
           /\ sreq.before.headers[k] # PyNone
           /\ sreq.headers.dict[k] = PyNone
           /\ k \notin DOMAIN sreq.sent.headers
    /\ \E k \in DOMAIN sreq.before.headers \cap DOMAIN sreq.headers.dict :
           /\ sreq.before.headers[k] # PyNone
           /\ sreq.headers.dict[k] \notin {PyNone, sreq.before.headers[k]}
           /\ sreq.sent.headers[k] = sreq.headers.dict[k]

\* C20: after any request() call, with or without per-request headers or
\* proxies, the session's headers, _proxies and verify hold the values they
\* had before the call and the same client is installed.
C20_SessionUnchanged ==
    sreq.op = "request" =>
        /\ sess.headers = sreq.before.headers
        /\ sess._proxies = sreq.before._proxies
        /\ sess.verify = sreq.before.verify
        /\ sess._client = sreq.before._client

\* A request that was sent with headers other than the session's own.
C20_Witness ==
    /\ sreq.op = "request" /\ sreq.sent.reached
    /\ sreq.headers.given /\ sreq.before.headers # EmptyDict
    /\ sreq.sent.headers # sreq.before.headers

\* ------------------------------------------------- claims on registration

\* C15: after import the decoder table maps "zstd" to the ZstdDecoder
\* factory and every other entry is as it was; each invocation of the
\* factory yields a decoder in the initial state, with a new context and
\* nothing consumed, whatever earlier instances processed.
C15_Registration ==
    /\ imported =>
           /\ DOMAIN table = DOMAIN table0 \cup {"zstd"}
           /\ table["zstd"] = "ZstdDecoder"
           /\ \A k \in DOMAIN table0 \ {"zstd"} : table[k] = table0[k]
    /\ \A i \in Inst :
           call[i].op = "new" =>
               /\ dec[i] = ZstdDecoderInit
               /\ dec[i].decompressor.stage = "magic"
               /\ ~dec[i].decompressor.eof
               /\ dec[i].decompressor.consumed = 0
               /\ dec[i].decompressor.unused_data = <<>>
               /\ pos[i] = 0 /\ out[i] = <<>>

\* The import replaced an entry httpx had for "zstd", and a decoder was made
\* for a response while the decoder of another response has raised.
C15_Witness ==
    /\ imported /\ "zstd" \in DOMAIN table0
    /\ call["A"].op = "new" /\ who = "A"
    /\ status["B"] = "ZstdError" /\ dec["B"] # ZstdDecoderInit

====
